---- MODULE Spec2Model ----
(***************************************************************************)
(* Route synthesis and scoring engine of recommendation_tool.py.           *)
(*                                                                         *)
(* Encoding of the program's values:                                       *)
(*   - money is kept in cents (11.20 -> 1120, 50.00 -> 5000);              *)
(*   - a value-per-mile score is kept in hundredths of a cent, i.e. the    *)
(*     two decimals that round(value * 100, 2) keeps;                      *)
(*   - an ISO date 'YYYY-MM-DD' is its day number, an ISO timestamp is the *)
(*     record [d |-> day number, m |-> minute of that day];                *)
(*   - a text that is searched or trimmed (airline codes, allowlist        *)
(*     entries) is a sequence of one-character strings;                    *)
(*   - an optional argument is the empty set (None) or a singleton.        *)
(***************************************************************************)
EXTENDS Integers, Sequences, FiniteSets, TLC

VARIABLES store, pc, call, result, day, hubs, iters, rows, prev, df, columns

vars == <<store, pc, call, result, day, hubs, iters, rows, prev, df, columns>>

(***************************************************************************)
(* Bounds of the model.                                                    *)
(***************************************************************************)
MaxFlights == 3
MaxHubs == 2
MaxDay == 2
MaxEdgeFlights == 4

(***************************************************************************)
(* Generic helpers on sequences.                                           *)
(***************************************************************************)
Range(s) == {s[i] : i \in 1..Len(s)}

Count(s, x) == Cardinality({i \in 1..Len(s) : s[i] = x})

Min(a, b) == IF a <= b THEN a ELSE b

Max(a, b) == IF a >= b THEN a ELSE b

RECURSIVE SeqsUpTo(_, _)
SeqsUpTo(S, n) ==
    IF n = 0 THEN {<<>>}
    ELSE LET shorter == SeqsUpTo(S, n - 1)
         IN  shorter \cup {Append(s, x) : s \in shorter, x \in S}

RECURSIVE Perms(_)
Perms(S) ==
    IF S = {} THEN {<<>>}
    ELSE UNION {{<<x>> \o p : p \in Perms(S \ {x})} : x \in S}

(***************************************************************************)
(* The flights table.  A row carries the nine columns the queries read.    *)
(***************************************************************************)
Row(al, fn, o, d, dt, dep, arr, p, mi) ==
    [airline |-> al, flight_number |-> fn, route_origin |-> o,
     route_destination |-> d, date |-> dt,
     departure_time |-> dep, arrival_time |-> arr, price |-> p, miles |-> mi]

TS(dd, mm) == [d |-> dd, m |-> mm]

Catalogue ==
    << Row(<<"A","A">>, "100", "JFK", "LHR", 1, TS(1,480), TS(1,1200), 60000, 30000),
       Row(<<"B","A">>, "200", "JFK", "LHR", 1, TS(1,540), TS(1,1260),  4000, 10000),
       Row(<<"U","A">>, "300", "JFK", "ORD", 1, TS(1,600), TS(1,840),  12000, 10000),
       Row(<<"U","A">>, "301", "ORD", "LHR", 1, TS(1,885), TS(2,300),  15000,     0),
       Row(<<"a","a">>, "302", "ORD", "LHR", 1, TS(1,900), TS(2,330),  20000,  8000),
       Row(<<"U","A">>, "303", "ORD", "LHR", 2, TS(2,600), TS(2,1320), 12000,     0),
       Row(<<"A","A">>, "100", "JFK", "LHR", 2, TS(2,480), TS(2,1200), 60000, 30000),
       Row(<<"E","K">>, "400", "JFK", "DXB", 1, TS(1,60),  TS(1,780),  30000, 20000),
       Row(<<"E","K">>, "401", "DXB", "LHR", 1, TS(1,840), TS(1,1300), 25000, 20000),
       Row(<<"Q","R">>, "500", "JFK", "ORD", 1, TS(1,300), TS(1,540),   9000,     0) >>

\* The index sets of at most n rows of the catalogue.
RECURSIVE IndexSets(_, _)
IndexSets(k, n) ==
    IF k = 0 \/ n = 0 THEN {{}}
    ELSE IndexSets(k - 1, n) \cup {S \cup {k} : S \in IndexSets(k - 1, n - 1)}

\* The rows of the catalogue with index in S, in table order.
RECURSIVE Pick(_, _)
Pick(S, k) ==
    IF k = 0 THEN <<>>
    ELSE IF k \in S THEN Append(Pick(S, k - 1), Catalogue[k])
         ELSE Pick(S, k - 1)

Stores == {Pick(S, Len(Catalogue)) : S \in IndexSets(Len(Catalogue), MaxFlights)}

\* A second catalogue: two hubs whose itineraries cost the same, and a flight
\* from the origin to itself and one from the destination to itself, which
\* make the origin and the destination hubs.
EdgeCatalogue ==
    << Row(<<"U","A">>, "310", "JFK", "ORD", 1, TS(1,600), TS(1,840),  12000, 10000),
       Row(<<"U","A">>, "311", "ORD", "LHR", 1, TS(1,900), TS(2,330),  20000,  8000),
       Row(<<"U","A">>, "320", "JFK", "LAX", 1, TS(1,600), TS(1,840),  12000, 10000),
       Row(<<"U","A">>, "321", "LAX", "LHR", 1, TS(1,900), TS(2,330),  20000,  8000),
       Row(<<"A","A">>, "100", "JFK", "LHR", 1, TS(1,480), TS(1,1200), 60000, 30000),
       Row(<<"B","A">>, "330", "JFK", "JFK", 1, TS(1,60),  TS(1,120),   1000,   500),
       Row(<<"B","A">>, "331", "LHR", "LHR", 1, TS(1,1300), TS(1,1400), 1000,   500) >>

RECURSIVE EdgePick(_, _)
EdgePick(S, k) ==
    IF k = 0 THEN <<>>
    ELSE IF k \in S THEN Append(EdgePick(S, k - 1), EdgeCatalogue[k])
         ELSE EdgePick(S, k - 1)

EdgeStores ==
    {EdgePick(S, Len(EdgeCatalogue)) :
        S \in IndexSets(Len(EdgeCatalogue), MaxEdgeFlights)}

Airports == {"JFK", "LHR", "DXB", "LAX", "HND", "ORD"}

QueryPairs == {<<"JFK", "LHR">>, <<"ORD", "LHR">>}

HubPool == {"ORD", "DXB"}

Days == 1..MaxDay

Layovers == {0, 45}

(***************************************************************************)
(* Binary floating point.  Python's float is the IEEE 754 double: every    *)
(* arithmetic result is the exact result rounded to 53 significant bits,   *)
(* an exact half going to the even mantissa.  Naturals beyond the range of *)
(* the checker's integers are little-endian sequences of limbs below Base. *)
(***************************************************************************)
Base == 16384

LimbBits == 14

MantissaBits == 53

RECURSIVE Pow2(_)
Pow2(k) == IF k = 0 THEN 1 ELSE 2 * Pow2(k - 1)

\* The number of bits of the natural n.
RECURSIVE IntBits(_)
IntBits(n) == IF n = 0 THEN 0 ELSE 1 + IntBits(n \div 2)

RECURSIVE Big(_)
Big(n) == IF n = 0 THEN <<>> ELSE <<n % Base>> \o Big(n \div Base)

RECURSIVE BigInt(_)
BigInt(a) == IF a = <<>> THEN 0 ELSE Head(a) + Base * BigInt(Tail(a))

\* Zero limbs at the high end removed.
RECURSIVE Trim(_)
Trim(a) ==
    IF a # <<>> /\ a[Len(a)] = 0 THEN Trim(SubSeq(a, 1, Len(a) - 1)) ELSE a

BigBits(a) ==
    IF a = <<>> THEN 0 ELSE LimbBits * (Len(a) - 1) + IntBits(a[Len(a)])

\* a * s + c, for s below 2^16.
RECURSIVE MulCarry(_, _, _)
MulCarry(a, s, c) ==
    IF a = <<>> THEN Big(c)
    ELSE LET x == Head(a) * s + c
         IN  <<x % Base>> \o MulCarry(Tail(a), s, x \div Base)

BigMulSmall(a, s) == Trim(MulCarry(a, s, 0))

BigAddSmall(a, c) == Trim(MulCarry(a, 1, c))

\* a * 2^k
ShiftLeft(a, k) ==
    IF a = <<>> THEN <<>>
    ELSE [i \in 1..(k \div LimbBits) |-> 0] \o BigMulSmall(a, Pow2(k % LimbBits))

\* Quotient and remainder of a by d, for d below 2^16.
RECURSIVE DivLimbs(_, _)
DivLimbs(a, d) ==
    IF a = <<>> THEN [q |-> <<>>, r |-> 0]
    ELSE LET hi == DivLimbs(Tail(a), d)
             x == hi.r * Base + Head(a)
         IN  [q |-> <<x \div d>> \o hi.q, r |-> x % d]

DivSmall(a, d) == [q |-> Trim(DivLimbs(a, d).q), r |-> DivLimbs(a, d).r]

\* a < b, both trimmed.
RECURSIVE BigLess(_, _)
BigLess(a, b) ==
    IF Len(a) # Len(b) THEN Len(a) < Len(b)
    ELSE IF a = <<>> THEN FALSE
    ELSE IF a[Len(a)] # b[Len(b)] THEN a[Len(a)] < b[Len(b)]
    ELSE BigLess(SubSeq(a, 1, Len(a) - 1), SubSeq(b, 1, Len(b) - 1))

\* a - b - borrow, for a >= b + borrow.
RECURSIVE SubBorrow(_, _, _)
SubBorrow(a, b, borrow) ==
    IF a = <<>> THEN <<>>
    ELSE LET y == (IF b = <<>> THEN 0 ELSE Head(b)) + borrow
             rest == IF b = <<>> THEN <<>> ELSE Tail(b)
         IN  IF Head(a) >= y
             THEN <<Head(a) - y>> \o SubBorrow(Tail(a), rest, 0)
             ELSE <<Head(a) + Base - y>> \o SubBorrow(Tail(a), rest, 1)

BigSub(a, b) == Trim(SubBorrow(a, b, 0))

\* Bit i of a, and whether the bits of a below bit i are all zero.
TestBit(a, i) ==
    /\ (i \div LimbBits) + 1 <= Len(a)
    /\ (a[(i \div LimbBits) + 1] \div Pow2(i % LimbBits)) % 2 = 1

LowBitsZero(a, i) ==
    /\ \A j \in 1..Min(Len(a), i \div LimbBits) : a[j] = 0
    /\ (i \div LimbBits) + 1 <= Len(a) =>
          a[(i \div LimbBits) + 1] % Pow2(i % LimbBits) = 0

\* floor(a / 2^k)
ShiftRight(a, k) ==
    IF k \div LimbBits >= Len(a) THEN <<>>
    ELSE DivSmall(SubSeq(a, (k \div LimbBits) + 1, Len(a)), Pow2(k % LimbBits)).q

\* The scaled quotient N / (D * 2^e) as quotient and remainder of a division
\* by Den(D, e), for a natural N > 0 in limbs and a natural D > 0.
Den(D, e) == IF e >= 0 THEN D * Pow2(e) ELSE D

Scaled(N, D, e) ==
    IF e >= 0 THEN DivSmall(N, D * Pow2(e))
    ELSE DivSmall(ShiftLeft(N, 0 - e), D)

\* A mantissa that rounding has carried to 2^53 becomes 2^52, the exponent
\* one more.
Carry(m, e) ==
    IF BigBits(m) > MantissaBits
    THEN [m |-> ShiftLeft(<<1>>, MantissaBits - 1), e |-> e + 1]
    ELSE [m |-> m, e |-> e]

\* The quotient t.q rounded by its remainder t.r: up beyond the half, and at
\* the half if the quotient is odd.
RoundEven(t, den, e) ==
    Carry(IF 2 * t.r > den \/ (2 * t.r = den /\ t.q[1] % 2 = 1)
          THEN BigAddSmall(t.q, 1) ELSE t.q,
          e)

\* e0 is the exponent that leaves 53 or 54 bits in the scaled quotient.
DoubleFrom(N, D, E, e0) ==
    IF BigBits(Scaled(N, D, e0).q) > MantissaBits
    THEN RoundEven(Scaled(N, D, e0 + 1), Den(D, e0 + 1), e0 + 1 + E)
    ELSE RoundEven(Scaled(N, D, e0), Den(D, e0), e0 + E)

\* The double nearest to (N / D) * 2^E, for a natural N > 0 in limbs and a
\* natural D > 0: its mantissa m, 2^52 <= m < 2^53, and exponent e, the
\* value being m * 2^e.
Double(N, D, E) == DoubleFrom(N, D, E, BigBits(N) - IntBits(D) - MantissaBits)

\* The float of an amount of c > 0 hundredths, as a decimal literal or a
\* stored price gives it.
FloatOf(c) == Double(Big(c), 100, 0)

\* Variant of Round2: the digits after the second decimal are cut off.
Round2_floor(w) ==
    IF w.e >= 0 THEN BigInt(ShiftLeft(BigMulSmall(w.m, 100), w.e))
    ELSE BigInt(ShiftRight(BigMulSmall(w.m, 100), 0 - w.e))

\* n / 2^k rounded to the nearest integer, an exact half going to the even
\* neighbour, for k > 0.
RoundShift(n, k) ==
    IF /\ TestBit(n, k - 1)
       /\ (~LowBitsZero(n, k - 1) \/ TestBit(n, k))
    THEN BigAddSmall(ShiftRight(n, k), 1)
    ELSE ShiftRight(n, k)

\* round(w, 2) of a double w > 0, in hundredths: the integer nearest to the
\* exact value of w times 100, an exact half going to the even neighbour.
Round2(w) ==
    IF w.e >= 0 THEN BigInt(ShiftLeft(BigMulSmall(w.m, 100), w.e))
    ELSE BigInt(RoundShift(BigMulSmall(w.m, 100), 0 - w.e))

\* The exponent to which two amounts' floats are aligned for the exact
\* difference, and an amount's mantissa at that exponent.
CommonExp(c1, c2) ==
    IF c1 = 0 THEN (IF c2 = 0 THEN 0 ELSE FloatOf(c2).e)
    ELSE IF c2 = 0 THEN FloatOf(c1).e
    ELSE Min(FloatOf(c1).e, FloatOf(c2).e)

Aligned(c, e) ==
    IF c = 0 THEN <<>> ELSE ShiftLeft(FloatOf(c).m, FloatOf(c).e - e)

\* s / miles and v * 100 in floats.
Quotient(s, miles) == Double(s.m, miles, s.e)

Times100(v) == Double(BigMulSmall(v.m, 100), 1, v.e)

\* The score of the difference x - y, both at exponent e.
ScoreFrom(x, y, e, miles) ==
    IF x = y THEN 0
    ELSE IF BigLess(x, y)
         THEN 0 - Round2(Times100(Quotient(Double(BigSub(y, x), 1, e), miles)))
         ELSE Round2(Times100(Quotient(Double(BigSub(x, y), 1, e), miles)))

\* round(((cash_price - taxes_and_fees) / miles_used) * 100, 2) in floats,
\* miles_used > 0: amounts in hundredths in, hundredths out.
RoundedScore(cash_price, taxes_and_fees, miles_used) ==
    ScoreFrom(Aligned(cash_price, CommonExp(cash_price, taxes_and_fees)),
              Aligned(taxes_and_fees, CommonExp(cash_price, taxes_and_fees)),
              CommonExp(cash_price, taxes_and_fees), miles_used)

(***************************************************************************)
(* Metric Calculator and Fee Estimator.                                    *)
(***************************************************************************)
\* The arguments of the direct calls of calculate_value_per_mile.
Prices == {0, 1120, 5000, 15000, 29000, 30000}

TaxesUsed == {1120, 2240, 5000}

MilesUsed == {0, 1, 7, 8000, 10000}

\* The scoring inputs that the catalogues and the direct calls give rise to:
\* one flight with a single fee, two flights with the sum of two fees.
ScoreInputs ==
    {<<f.price, t, f.miles>> :
        f \in Range(Catalogue) \cup Range(EdgeCatalogue), t \in {1120, 5000}}
    \cup {<<f[1].price + f[2].price, t, f[1].miles + f[2].miles>> :
            f \in (Range(Catalogue) \X Range(Catalogue))
                     \cup (Range(EdgeCatalogue) \X Range(EdgeCatalogue)),
            t \in {2240, 6120, 10000}}
    \cup (Prices \X TaxesUsed \X MilesUsed)

\* RoundedScore, computed once for the inputs above: merging with the empty
\* function turns the definition into a table of its values.
ScoreTable ==
    [x \in {y \in ScoreInputs : y[3] > 0} |-> RoundedScore(x[1], x[2], x[3])]
        @@ <<>>

Score(cash_price, taxes_and_fees, miles_used) ==
    ScoreTable[<<cash_price, taxes_and_fees, miles_used>>]

\* Variant of calculate_value_per_mile: zero mileage scores zero instead of
\* raising.
calculate_value_per_mile_zero(cash_price, taxes_and_fees, miles_used) ==
    IF miles_used = 0
    THEN [v |-> 0, raised |-> FALSE]
    ELSE [v |-> Score(cash_price, taxes_and_fees, miles_used),
          raised |-> FALSE]

\* cash_price and taxes_and_fees in cents; the score in hundredths of a cent.
calculate_value_per_mile(cash_price, taxes_and_fees, miles_used) ==
    IF miles_used = 0
    THEN [v |-> 0, raised |-> TRUE]
    ELSE [v |-> Score(cash_price, taxes_and_fees, miles_used),
          raised |-> FALSE]

international_routes == {<<"JFK", "LHR">>, <<"DXB", "LHR">>, <<"LAX", "HND">>}

\* Variant of estimate_taxes_and_fees: a listed pair counts in both directions.
estimate_taxes_and_fees_sym(origin, destination) ==
    IF \/ <<origin, destination>> \in international_routes
       \/ <<destination, origin>> \in international_routes
    THEN 5000 ELSE 1120

estimate_taxes_and_fees(origin, destination) ==
    IF <<origin, destination>> \in international_routes THEN 5000 ELSE 1120

(***************************************************************************)
(* Flight Repository: the three SELECTs over the flights table.            *)
(***************************************************************************)
\* SELECT airline, flight_number, departure_time, arrival_time, price, miles
Leg(f) ==
    [airline |-> f.airline, flight_number |-> f.flight_number,
     departure_time |-> f.departure_time, arrival_time |-> f.arrival_time,
     price |-> f.price, miles |-> f.miles]

\* ... FROM flights WHERE route_origin = ? AND route_destination = ? AND date = ?
SelectLegs(table, origin, destination, date) ==
    LET hit == SelectSeq(table, LAMBDA f : /\ f.route_origin = origin
                                           /\ f.route_destination = destination
                                           /\ f.date = date)
    IN  [k \in 1..Len(hit) |-> Leg(hit[k])]

get_direct_flights(origin, destination, date) ==
    SelectLegs(store, origin, destination, date)

\* Variant of HubSet: the two lookups united instead of intersected.
HubSet_union(table, origin, destination, date) ==
    {f.route_destination :
        f \in {g \in Range(table) : g.route_origin = origin /\ g.date = date}}
    \cup {f.route_origin :
        f \in {g \in Range(table) : g.route_destination = destination /\ g.date = date}}

\* Variant of HubSet: the origin and the destination are never hubs.
HubSet_noself(table, origin, destination, date) ==
    ({f.route_destination :
        f \in {g \in Range(table) : g.route_origin = origin /\ g.date = date}}
     \cap {f.route_origin :
        f \in {g \in Range(table) : g.route_destination = destination /\ g.date = date}})
    \ {origin, destination}

\* The set from_origin & to_dest.
HubSet(table, origin, destination, date) ==
    LET from_origin == {f.route_destination :
                          f \in {g \in Range(table) : /\ g.route_origin = origin
                                                      /\ g.date = date}}
        to_dest == {f.route_origin :
                      f \in {g \in Range(table) : /\ g.route_destination = destination
                                                  /\ g.date = date}}
    IN  from_origin \cap to_dest

\* list(from_origin & to_dest): a set of strings is listed in an order that
\* the interpreter's string hashing decides, so every order is a possible
\* return value.
get_possible_hub_airports(origin, destination, date) ==
    Perms(HubSet(store, origin, destination, date))

(***************************************************************************)
(* Route Synthesizer.                                                      *)
(***************************************************************************)
\* datetime.fromisoformat: minutes since day 0.
fromisoformat(ts) == ts.d * 1440 + ts.m

\* Variant of LayoverTooShort: a departure exactly at arrival + layover passes.
LayoverTooShort_lt(flight1, flight2, min_layover_minutes) ==
    fromisoformat(flight2.departure_time)
        < fromisoformat(flight1.arrival_time) + min_layover_minutes

\* The test that skips a leg pair: dep2 <= arr1 + timedelta(minutes=...).
LayoverTooShort(flight1, flight2, min_layover_minutes) ==
    fromisoformat(flight2.departure_time)
        <= fromisoformat(flight1.arrival_time) + min_layover_minutes

\* Variant of HubRoutes: the fee is estimated once, for origin -> destination.
HubRoutes_directfee(origin, destination, hub, first_legs, second_legs, min_layover_minutes) ==
    LET n2 == Len(second_legs)
        pairs == [k \in 1..(Len(first_legs) * n2) |->
                    <<first_legs[((k - 1) \div n2) + 1],
                      second_legs[((k - 1) % n2) + 1]>>]
        kept == SelectSeq(pairs, LAMBDA pr :
                    ~LayoverTooShort(pr[1], pr[2], min_layover_minutes))
    IN  [k \in 1..Len(kept) |->
            [flight1 |-> kept[k][1], flight2 |-> kept[k][2], hub |-> hub,
             total_price |-> kept[k][1].price + kept[k][2].price,
             total_miles |-> kept[k][1].miles + kept[k][2].miles,
             taxes |-> estimate_taxes_and_fees(origin, destination)]]

\* The two nested loops over first_legs and second_legs for one hub.
HubRoutes(origin, destination, hub, first_legs, second_legs, min_layover_minutes) ==
    LET n2 == Len(second_legs)
        pairs == [k \in 1..(Len(first_legs) * n2) |->
                    <<first_legs[((k - 1) \div n2) + 1],
                      second_legs[((k - 1) % n2) + 1]>>]
        kept == SelectSeq(pairs, LAMBDA pr :
                    ~LayoverTooShort(pr[1], pr[2], min_layover_minutes))
    IN  [k \in 1..Len(kept) |->
            [flight1 |-> kept[k][1], flight2 |-> kept[k][2], hub |-> hub,
             total_price |-> kept[k][1].price + kept[k][2].price,
             total_miles |-> kept[k][1].miles + kept[k][2].miles,
             taxes |-> estimate_taxes_and_fees(origin, hub)
                         + estimate_taxes_and_fees(hub, destination)]]

\* Variant of SynthLoop: the loop is left after the first hub.
SynthLoop_first(table, origin, destination, date, hub_airports, min_layover_minutes) ==
    IF hub_airports = <<>> THEN <<>>
    ELSE HubRoutes(origin, destination, Head(hub_airports),
                   SelectLegs(table, origin, Head(hub_airports), date),
                   SelectLegs(table, Head(hub_airports), destination, date),
                   min_layover_minutes)

RECURSIVE SynthLoop(_, _, _, _, _, _)
SynthLoop(table, origin, destination, date, hub_airports, min_layover_minutes) ==
    IF hub_airports = <<>> THEN <<>>
    ELSE LET hub == Head(hub_airports)
         IN  HubRoutes(origin, destination, hub,
                       SelectLegs(table, origin, hub, date),
                       SelectLegs(table, hub, destination, date),
                       min_layover_minutes)
             \o SynthLoop(table, origin, destination, date,
                          Tail(hub_airports), min_layover_minutes)

get_synthetic_routes(origin, destination, date, hub_airports, min_layover_minutes) ==
    SynthLoop(store, origin, destination, date, hub_airports, min_layover_minutes)

(***************************************************************************)
(* Recommendation Engine, single-date best pick.                           *)
(***************************************************************************)
\* The dictionary appended for a direct flight; value_per_mile still holds
\* the outcome of the scoring call (a score or the raised ValueError).
DirectOption(origin, destination, flight) ==
    LET taxes == estimate_taxes_and_fees(origin, destination)
    IN  [price |-> flight.price, miles |-> flight.miles, taxes |-> taxes,
         type |-> "Direct", route |-> <<<<origin, destination>>>>,
         flights |-> <<flight>>,
         value_per_mile |-> calculate_value_per_mile(flight.price, taxes, flight.miles)]

\* The dictionary appended for a synthetic route.
SyntheticOption(origin, destination, s) ==
    [price |-> s.total_price, miles |-> s.total_miles, taxes |-> s.taxes,
     type |-> "Synthetic",
     route |-> <<<<origin, s.hub>>, <<s.hub, destination>>>>,
     flights |-> <<s.flight1, s.flight2>>,
     value_per_mile |-> calculate_value_per_mile(s.total_price, s.taxes, s.total_miles)]

\* Variant of MaxByValue: the comparison turned round (the lowest score wins).
RECURSIVE MaxByValue_min(_, _)
MaxByValue_min(best, rest) ==
    IF rest = <<>> THEN best
    ELSE IF Head(rest).value_per_mile < best.value_per_mile
         THEN MaxByValue_min(Head(rest), Tail(rest))
         ELSE MaxByValue_min(best, Tail(rest))

\* max(all_options, key=...): the first option no later one strictly beats.
RECURSIVE MaxByValue(_, _)
MaxByValue(best, rest) ==
    IF rest = <<>> THEN best
    ELSE IF Head(rest).value_per_mile > best.value_per_mile
         THEN MaxByValue(Head(rest), Tail(rest))
         ELSE MaxByValue(best, Tail(rest))

recommend_best_route(origin, destination, date, hub_airports, min_layover_minutes) ==
    LET direct_options == get_direct_flights(origin, destination, date)
        synthetic_options == get_synthetic_routes(origin, destination, date,
                                                  hub_airports, min_layover_minutes)
        scored == [k \in 1..Len(direct_options) |->
                      DirectOption(origin, destination, direct_options[k])]
                  \o [k \in 1..Len(synthetic_options) |->
                      SyntheticOption(origin, destination, synthetic_options[k])]
        all_options == [k \in 1..Len(scored) |->
                          [scored[k] EXCEPT !.value_per_mile = scored[k].value_per_mile.v]]
    IN  IF \E k \in 1..Len(scored) : scored[k].value_per_mile.raised
        THEN [kind |-> "raise", val |-> <<>>]
        ELSE IF all_options = <<>>
        THEN [kind |-> "sentinel", val |-> <<>>]
        ELSE [kind |-> "option",
              val |-> <<MaxByValue(Head(all_options), Tail(all_options))>>]

(***************************************************************************)
(* Recommendation Engine, range query: the helpers local to                *)
(* recommend_routes.                                                       *)
(***************************************************************************)
local_get_direct_flights(origin, destination, date) ==
    SelectLegs(store, origin, destination, date)

\* list(from_origin & to_dest), in any order (see get_possible_hub_airports).
local_get_possible_hub_airports(origin, destination, date) ==
    Perms(HubSet(store, origin, destination, date))

RECURSIVE BuildLoop(_, _, _, _, _, _)
BuildLoop(table, origin, destination, date, hub_airports, min_layover_minutes) ==
    IF hub_airports = <<>> THEN <<>>
    ELSE LET hub == Head(hub_airports)
         IN  HubRoutes(origin, destination, hub,
                       SelectLegs(table, origin, hub, date),
                       SelectLegs(table, hub, destination, date),
                       min_layover_minutes)
             \o BuildLoop(table, origin, destination, date,
                          Tail(hub_airports), min_layover_minutes)

build_synthetic_routes(origin, destination, date, hub_airports, min_layover_minutes) ==
    BuildLoop(store, origin, destination, date, hub_airports, min_layover_minutes)

\* datetime.fromisoformat(s).date() of a start_date or end_date argument:
\* <<d>> is a date, <<d, m>> a timestamp; the time of day is dropped.
DateOf(s) == s[1]

\* Variant of DateRange: the dates are not swapped.
DateRange_noswap(start_date, end_date) ==
    [start |-> DateOf(start_date), end |-> DateOf(end_date)]

\* start and end as the loop uses them: swapped if end < start.
DateRange(start_date, end_date) ==
    LET start == DateOf(start_date)
        end == DateOf(end_date)
    IN  IF end < start THEN [start |-> end, end |-> start]
        ELSE [start |-> start, end |-> end]

cols == <<"date", "type", "origin", "destination", "airline", "price", "miles",
          "taxes", "value_per_mile_cents", "route", "flights_json">>

\* The row appended for a direct flight f; value_per_mile_cents holds the
\* outcome of the scoring call until the loop body has checked it.
DirectRow(origin, destination, date_str, f) ==
    LET taxes == estimate_taxes_and_fees(origin, destination)
    IN  [airline |-> f.airline, date |-> date_str,
         price |-> f.price, miles |-> f.miles,
         origin |-> origin, destination |-> destination, taxes |-> taxes,
         type |-> "Direct", route |-> <<<<origin, destination>>>>,
         value_per_mile_cents |-> calculate_value_per_mile(f.price, taxes, f.miles),
         flights_json |-> <<f>>]

\* The row appended for a synthetic route s; the airline label is
\* f"{f1[0]}+{f2[0]}".
SyntheticRow(origin, destination, date_str, s) ==
    [airline |-> s.flight1.airline \o <<"+">> \o s.flight2.airline,
     date |-> date_str,
     price |-> s.total_price, miles |-> s.total_miles,
     origin |-> origin, destination |-> destination, taxes |-> s.taxes,
     type |-> "Synthetic",
     route |-> <<<<origin, s.hub>>, <<s.hub, destination>>>>,
     value_per_mile_cents |->
         calculate_value_per_mile(s.total_price, s.taxes, s.total_miles),
     flights_json |-> <<s.flight1, s.flight2>>]

\* One pass of the while loop's body for date_str, the hub list being hub_list:
\* the rows it appends, each still carrying its scoring outcome.
DayRows(origin, destination, date_str, include_synthetic, hub_list, min_layover_minutes) ==
    LET directs == local_get_direct_flights(origin, destination, date_str)
        synth == IF include_synthetic
                 THEN build_synthetic_routes(origin, destination, date_str,
                                             hub_list, min_layover_minutes)
                 ELSE <<>>
    IN  [k \in 1..Len(directs) |->
            DirectRow(origin, destination, date_str, directs[k])]
        \o [k \in 1..Len(synth) |->
            SyntheticRow(origin, destination, date_str, synth[k])]

Scored(rs) ==
    [k \in 1..Len(rs) |->
        [rs[k] EXCEPT !.value_per_mile_cents = rs[k].value_per_mile_cents.v]]

(***************************************************************************)
(* The filters.                                                            *)
(***************************************************************************)
\* str.strip(): leading and trailing whitespace removed.
RECURSIVE lstrip(_)
lstrip(s) == IF s # <<>> /\ Head(s) = " " THEN lstrip(Tail(s)) ELSE s

RECURSIVE rstrip(_)
rstrip(s) ==
    IF s # <<>> /\ s[Len(s)] = " " THEN rstrip(SubSeq(s, 1, Len(s) - 1)) ELSE s

strip(s) == rstrip(lstrip(s))

\* The characters re.escape puts a backslash before.
SpecialChars == {"\\", ".", "^", "$", "*", "+", "?", "{", "}", "[", "]", "|",
                 "(", ")", "-", "&", "#", "~", " "}

\* Variant of re_escape: the entry is used as a pattern as it stands.
re_escape_none(s) == s

RECURSIVE re_escape(_)
re_escape(s) ==
    IF s = <<>> THEN <<>>
    ELSE (IF Head(s) \in SpecialChars THEN <<"\\", Head(s)>> ELSE <<Head(s)>>)
         \o re_escape(Tail(s))

\* pats: the escaped, stripped entries; empty and blank entries are left out.
Pats(airline_allowlist) ==
    LET used == SelectSeq(airline_allowlist,
                          LAMBDA e : e # <<>> /\ strip(e) # <<>>)
    IN  [k \in 1..Len(used) |-> re_escape(strip(used[k]))]

\* "|".join(pats)
RECURSIVE Join(_)
Join(ps) ==
    IF ps = <<>> THEN <<>>
    ELSE IF Len(ps) = 1 THEN ps[1]
    ELSE ps[1] \o <<"|">> \o Join(Tail(ps))

\* The regular expression read from its text: the alternatives, each a
\* sequence of tokens.  A backslash makes the next character a literal, an
\* unescaped "|" ends an alternative, an unescaped "." matches any character,
\* and an unescaped "+", "*" or "?" after a token repeats it (one or more,
\* zero or more, zero or one times).
RECURSIVE ParseRegex(_, _, _)
ParseRegex(text, alts, cur) ==
    IF text = <<>> THEN Append(alts, cur)
    ELSE IF Head(text) = "|"
         THEN ParseRegex(Tail(text), Append(alts, cur), <<>>)
    ELSE LET escaped == Head(text) = "\\" /\ Len(text) >= 2
             c == IF escaped THEN text[2] ELSE Head(text)
             after == SubSeq(text, (IF escaped THEN 3 ELSE 2), Len(text))
             times == IF after # <<>> /\ Head(after) \in {"+", "*", "?"}
                      THEN Head(after) ELSE "1"
             rest == IF times = "1" THEN after ELSE Tail(after)
         IN  ParseRegex(rest, alts,
                        Append(cur, [times |-> times,
                                     any |-> ~escaped /\ c = ".", ch |-> c]))

\* Case folding of the letters that occur in airline codes.
Lower(c) ==
    CASE c = "A" -> "a" [] c = "B" -> "b" [] c = "E" -> "e" [] c = "K" -> "k"
      [] c = "Q" -> "q" [] c = "R" -> "r" [] c = "U" -> "u" [] OTHER -> c

\* The tokens from the k-th on match the label from position pos on.
RECURSIVE MatchAt(_, _, _, _)
MatchAt(toks, k, label, pos) ==
    IF k > Len(toks) THEN TRUE
    ELSE LET t == toks[k]
             hit == /\ pos <= Len(label)
                    /\ (t.any \/ Lower(t.ch) = Lower(label[pos]))
         IN  CASE t.times = "1" -> hit /\ MatchAt(toks, k + 1, label, pos + 1)
               [] t.times = "?" -> \/ MatchAt(toks, k + 1, label, pos)
                                   \/ hit /\ MatchAt(toks, k + 1, label, pos + 1)
               [] t.times = "*" -> \/ MatchAt(toks, k + 1, label, pos)
                                   \/ hit /\ MatchAt(toks, k, label, pos + 1)
               [] t.times = "+" -> /\ hit
                                   /\ \/ MatchAt(toks, k + 1, label, pos + 1)
                                      \/ MatchAt(toks, k, label, pos + 1)

\* Series.str.contains(pattern, case=False, regex=True): re.search finds some
\* alternative at some offset of the label.
Contains(label, pattern) ==
    LET alts == ParseRegex(pattern, <<>>, <<>>)
    IN  \E a \in 1..Len(alts) :
            \E off \in 0..Len(label) : MatchAt(alts[a], 1, label, off + 1)

FilterMinVpm(frame, min_vpm_cents) ==
    IF min_vpm_cents # {}
    THEN SelectSeq(frame, LAMBDA r :
             \A t \in min_vpm_cents : r.value_per_mile_cents >= t)
    ELSE frame

\* Variant of FilterMaxPrice: a price equal to the threshold is removed.
FilterMaxPrice_strict(frame, max_price) ==
    IF max_price # {}
    THEN SelectSeq(frame, LAMBDA r : \A t \in max_price : r.price < t)
    ELSE frame

FilterMaxPrice(frame, max_price) ==
    IF max_price # {}
    THEN SelectSeq(frame, LAMBDA r : \A t \in max_price : r.price <= t)
    ELSE frame

FilterAirlines(frame, airline_allowlist) ==
    IF airline_allowlist # <<>>
    THEN LET pats == Pats(airline_allowlist)
         IN  IF pats # <<>>
             THEN SelectSeq(frame, LAMBDA r : Contains(r.airline, Join(pats)))
             ELSE frame
    ELSE frame

ApplyFilters(frame, min_vpm_cents, max_price, airline_allowlist) ==
    FilterAirlines(FilterMaxPrice(FilterMinVpm(frame, min_vpm_cents), max_price),
                   airline_allowlist)

(***************************************************************************)
(* The objective sort and the truncation.                                  *)
(***************************************************************************)
\* Variant of SortsBefore: the default objective orders value per mile
\* ascending.
SortsBefore_vpmasc(a, b, objective) ==
    IF objective = "min_fees"
    THEN \/ a.taxes < b.taxes
         \/ /\ a.taxes = b.taxes
            /\ \/ a.price < b.price
               \/ /\ a.price = b.price
                  /\ a.value_per_mile_cents > b.value_per_mile_cents
    ELSE \/ a.value_per_mile_cents < b.value_per_mile_cents
         \/ /\ a.value_per_mile_cents = b.value_per_mile_cents
            /\ a.price < b.price

\* a is ordered strictly before b by the sort keys of the objective.
SortsBefore(a, b, objective) ==
    IF objective = "min_fees"
    THEN \/ a.taxes < b.taxes
         \/ /\ a.taxes = b.taxes
            /\ \/ a.price < b.price
               \/ /\ a.price = b.price
                  /\ a.value_per_mile_cents > b.value_per_mile_cents
    ELSE \/ a.value_per_mile_cents > b.value_per_mile_cents
         \/ /\ a.value_per_mile_cents = b.value_per_mile_cents
            /\ a.price < b.price

\* x put into the sorted sequence s before the first row it is strictly
\* before: rows equal on every key keep the order they had.
RECURSIVE InsertRow(_, _, _)
InsertRow(s, x, objective) ==
    IF s = <<>> THEN <<x>>
    ELSE IF SortsBefore(x, Head(s), objective) THEN <<x>> \o s
    ELSE <<Head(s)>> \o InsertRow(Tail(s), x, objective)

RECURSIVE SortFrom(_, _, _)
SortFrom(done, rest, objective) ==
    IF rest = <<>> THEN done
    ELSE SortFrom(InsertRow(done, Head(rest), objective), Tail(rest), objective)

\* DataFrame.sort_values on several keys (a stable sort).
sort_values(frame, objective) == SortFrom(<<>>, frame, objective)

\* if max_results: df = df.head(int(max_results))
Truncate(frame, max_results) ==
    IF max_results # 0
    THEN SubSeq(frame, 1, Min(max_results, Len(frame)))
    ELSE frame

(***************************************************************************)
(* Calls of the module's functions.  One call is made per behaviour: the   *)
(* functions keep no state between calls and the table is only read.       *)
(***************************************************************************)
NoCall == [op |-> "none"]

Init ==
    /\ store \in Stores
    /\ pc = "idle"
    /\ call = NoCall
    /\ result = [kind |-> "none", val |-> <<>>]
    /\ day = 0
    /\ hubs = <<>>
    /\ iters = 0
    /\ rows = <<>>
    /\ prev = <<>>
    /\ df = <<>>
    /\ columns = <<>>

Returns(c, r) ==
    /\ pc = "idle"
    /\ pc' = (IF r.kind = "raise" THEN "raised" ELSE "returned")
    /\ call' = c
    /\ result' = r
    /\ UNCHANGED <<columns, store, day, hubs, iters, rows, prev, df>>

CallValuePerMile ==
    \E p \in Prices, t \in TaxesUsed, m \in MilesUsed :
        LET r == calculate_value_per_mile(p, t, m)
        IN  Returns([cash_price |-> p, taxes_and_fees |-> t, miles_used |-> m,
                     op |-> "calculate_value_per_mile"],
                    IF r.raised THEN [kind |-> "raise", val |-> <<>>]
                    ELSE [kind |-> "value", val |-> <<r.v>>])

CallEstimate ==
    \E o \in Airports, d \in Airports :
        Returns([origin |-> o, destination |-> d, op |-> "estimate_taxes_and_fees"],
                [kind |-> "value", val |-> <<estimate_taxes_and_fees(o, d)>>])

CallHubs ==
    \E q \in QueryPairs, dt \in Days :
        \E hs \in get_possible_hub_airports(q[1], q[2], dt) :
            Returns([date |-> dt, origin |-> q[1], destination |-> q[2],
                     op |-> "get_possible_hub_airports"],
                    [kind |-> "list", val |-> hs])

CallSynthetic ==
    \E q \in QueryPairs, dt \in Days, hs \in SeqsUpTo(HubPool, MaxHubs),
       mlm \in Layovers :
        Returns([date |-> dt, origin |-> q[1], destination |-> q[2],
                 min_layover_minutes |-> mlm, hub_airports |-> hs,
                 op |-> "get_synthetic_routes"],
                [kind |-> "list",
                 val |-> get_synthetic_routes(q[1], q[2], dt, hs, mlm)])

CallBestRoute ==
    \E q \in QueryPairs, dt \in Days, hs \in SeqsUpTo(HubPool, MaxHubs),
       mlm \in Layovers :
        Returns([date |-> dt, origin |-> q[1], destination |-> q[2],
                 min_layover_minutes |-> mlm, hub_airports |-> hs,
                 op |-> "recommend_best_route"],
                recommend_best_route(q[1], q[2], dt, hs, mlm))

(***************************************************************************)
(* recommend_routes, statement by statement.  call holds the arguments and *)
(* locals that the statements still to run read; an argument that only a   *)
(* later statement reads enters call when that statement runs.             *)
(***************************************************************************)
DateInputs == {<<d>> : d \in Days} \cup {<<1, 600>>}

MinVpms == {{}, {0}, {183}}

MaxPrices == {{}, {27000}}

Allowlists ==
    { <<>>,
      << <<" ">> >>,
      << <<"a", "a">> >>,
      << <<" ", "U", "A", " ">>, <<>> >>,
      << <<"a", "+">> >>,
      << <<".">> >>,
      << <<"Q", "|", "B">>, <<"U", "*">> >> }

Objectives == {"vpm", "min_fees", "fastest"}

ResultCaps == {0, 1, 2, 100}

\* Variant of DataFrameColumns: the columns are inferred from the data.
DataFrameColumns_inferred(data, columns_) ==
    IF data = <<>> THEN <<>> ELSE columns_

\* The column index of  pd.DataFrame(data, columns=columns_).
DataFrameColumns(data, columns_) == columns_

\* A returned frame: its rows and its column index.
Table(frame) == [columns |-> columns, kind |-> "table", val |-> frame]

\* start, end = the two dates, swapped if end < start; rows = []; day = start
RRStart ==
    /\ pc = "idle"
    /\ \E q \in QueryPairs, start_date \in DateInputs, end_date \in DateInputs,
          include_synthetic \in BOOLEAN, mlm \in Layovers :
          LET start == DateRange(start_date, end_date).start
              end == DateRange(start_date, end_date).end
          IN  /\ call' = [origin |-> q[1], destination |-> q[2],
                          min_layover_minutes |-> mlm,
                          start_date |-> start_date, end_date |-> end_date,
                          end |-> end, include_synthetic |-> include_synthetic,
                          op |-> "recommend_routes"]
              /\ day' = start
    /\ pc' = "loop"
    /\ rows' = <<>>
    /\ iters' = 0
    /\ UNCHANGED <<columns, store, result, hubs, prev, df>>

\* Variant of RRDay: discovery and synthesis run whatever include_synthetic is.
RRDay_always ==
    /\ pc = "loop"
    /\ day <= call.end
    /\ \E hs \in local_get_possible_hub_airports(call.origin,
                                                  call.destination, day) :
          LET rs == DayRows(call.origin, call.destination, day,
                            TRUE, hs, call.min_layover_minutes)
          IN  /\ hubs' = hs
              /\ IF \E k \in 1..Len(rs) : rs[k].value_per_mile_cents.raised
                 THEN /\ pc' = "raised"
                      /\ result' = [kind |-> "raise", val |-> <<>>]
                      /\ UNCHANGED <<rows, day, iters>>
                 ELSE /\ rows' = rows \o Scored(rs)
                      /\ day' = day + 1
                      /\ iters' = iters + 1
                      /\ UNCHANGED <<pc, result>>
    /\ UNCHANGED <<columns, store, call, prev, df>>

\* One iteration of  while day <= end.  A scoring call that raises ends
\* recommend_routes with the exception.
RRDay ==
    /\ pc = "loop"
    /\ day <= call.end
    /\ \E hs \in (IF call.include_synthetic
                  THEN local_get_possible_hub_airports(call.origin,
                                                       call.destination, day)
                  ELSE {hubs}) :
          LET rs == DayRows(call.origin, call.destination, day,
                            call.include_synthetic, hs, call.min_layover_minutes)
          IN  /\ hubs' = hs
              /\ IF \E k \in 1..Len(rs) : rs[k].value_per_mile_cents.raised
                 THEN /\ pc' = "raised"
                      /\ result' = [kind |-> "raise", val |-> <<>>]
                      /\ UNCHANGED <<rows, day, iters>>
                 ELSE /\ rows' = rows \o Scored(rs)
                      /\ day' = day + 1
                      /\ iters' = iters + 1
                      /\ UNCHANGED <<pc, result>>
    /\ UNCHANGED <<columns, store, call, prev, df>>

\* The loop is left: df = pd.DataFrame(rows, columns=cols).  Boolean
\* indexing, sort_values, head and reset_index keep the column index.
RRFrame ==
    /\ pc = "loop"
    /\ day > call.end
    /\ df' = rows
    /\ columns' = DataFrameColumns(rows, cols)
    /\ pc' = "filter"
    /\ UNCHANGED <<store, call, result, day, hubs, iters, rows, prev>>

\* df.empty: filters, sort and truncation are skipped.
RRReturnEmpty ==
    /\ pc = "filter"
    /\ df = <<>>
    /\ pc' = "returned"
    /\ result' = Table(df)
    /\ UNCHANGED <<columns, store, call, day, hubs, iters, rows, prev, df>>

\* The three filters; prev keeps the frame they were applied to.
RRFilter ==
    /\ pc = "filter"
    /\ df # <<>>
    /\ \E min_vpm_cents \in MinVpms, max_price \in MaxPrices,
          airline_allowlist \in Allowlists :
          /\ call' = [include_synthetic |-> call.include_synthetic,
                      airline_allowlist |-> airline_allowlist,
                      min_vpm_cents |-> min_vpm_cents,
                      max_price |-> max_price,
                      op |-> "recommend_routes"]
          /\ df' = ApplyFilters(df, min_vpm_cents, max_price, airline_allowlist)
    /\ prev' = df
    /\ pc' = "sort"
    /\ rows' = <<>>
    /\ day' = 0
    /\ hubs' = <<>>
    /\ iters' = 0
    /\ UNCHANGED <<columns, store, result>>

\* The objective sort; prev keeps the filtered frame.
RRSort ==
    /\ pc = "sort"
    /\ \E objective \in Objectives :
          /\ call' = [include_synthetic |-> call.include_synthetic,
                      objective |-> objective,
                      op |-> "recommend_routes"]
          /\ df' = sort_values(df, objective)
    /\ prev' = df
    /\ pc' = "head"
    /\ UNCHANGED <<columns, store, result, day, hubs, iters, rows>>

\* The truncation and  return df.reset_index(drop=True); prev keeps the
\* sorted frame.
RRHead ==
    /\ pc = "head"
    /\ \E max_results \in ResultCaps :
          /\ call' = [include_synthetic |-> call.include_synthetic,
                      objective |-> call.objective,
                      max_results |-> max_results,
                      op |-> "recommend_routes"]
          /\ df' = Truncate(df, max_results)
          /\ result' = Table(Truncate(df, max_results))
    /\ prev' = df
    /\ pc' = "returned"
    /\ UNCHANGED <<columns, store, day, hubs, iters, rows>>

Next ==
    \/ CallValuePerMile
    \/ CallEstimate
    \/ CallHubs
    \/ CallSynthetic
    \/ CallBestRoute
    \/ RRStart
    \/ RRDay
    \/ RRFrame
    \/ RRReturnEmpty
    \/ RRFilter
    \/ RRSort
    \/ RRHead

Spec == Init /\ [][Next]_vars

\* The same program over the stores of the second catalogue.
InitEdge ==
    /\ store \in EdgeStores
    /\ pc = "idle"
    /\ call = NoCall
    /\ result = [kind |-> "none", val |-> <<>>]
    /\ day = 0
    /\ hubs = <<>>
    /\ iters = 0
    /\ rows = <<>>
    /\ prev = <<>>
    /\ df = <<>>
    /\ columns = <<>>

SpecEdge == InitEdge /\ [][Next]_vars

(***************************************************************************)
(* Properties.                                                             *)
(***************************************************************************)
Returned(op) == pc = "returned" /\ call.op = op

\* The call of op has returned or raised.
Ended(op) == pc \in {"returned", "raised"} /\ call.op = op

\* Minutes since day 0 of a timestamp.
Minutes(ts) == 1440 * ts.d + ts.m

\* store[i] is a flight from o to d on date dt.
Flies(i, o, d, dt) ==
    /\ store[i].route_origin = o
    /\ store[i].route_destination = d
    /\ store[i].date = dt

\* The pairs of table rows that make a valid itinerary from o to d via h on
\* dt with minimum layover mlm.
ValidPairs(o, d, dt, h, mlm) ==
    {ij \in (1..Len(store)) \X (1..Len(store)) :
        /\ Flies(ij[1], o, h, dt)
        /\ Flies(ij[2], h, d, dt)
        /\ Minutes(store[ij[2]].departure_time)
               > Minutes(store[ij[1]].arrival_time) + mlm}

\* C1: every synthetic route that get_synthetic_routes returns, and every
\* synthetic row that recommend_routes accumulates through
\* build_synthetic_routes, has its second leg departing strictly later than
\* its first leg's arrival plus the minimum layover; a departure exactly at
\* arrival + minimum layover is not emitted.
C1_LayoverStrict ==
    /\ Returned("get_synthetic_routes") =>
          \A k \in 1..Len(result.val) :
              Minutes(result.val[k].flight2.departure_time)
                  > Minutes(result.val[k].flight1.arrival_time)
                        + call.min_layover_minutes
    /\ pc \in {"loop", "filter"} =>
          \A k \in 1..Len(rows) :
              rows[k].type = "Synthetic" =>
                  Minutes(rows[k].flights_json[2].departure_time)
                      > Minutes(rows[k].flights_json[1].arrival_time)
                            + call.min_layover_minutes

\* A call that emitted a route for a hub while the table also held a pair for
\* that hub departing exactly at arrival + minimum layover.
C1_Witness ==
    /\ Returned("get_synthetic_routes")
    /\ result.val # <<>>
    /\ \E i \in 1..Len(store), j \in 1..Len(store) :
          /\ Flies(i, call.origin, result.val[1].hub, call.date)
          /\ Flies(j, result.val[1].hub, call.destination, call.date)
          /\ Minutes(store[j].departure_time)
                 = Minutes(store[i].arrival_time) + call.min_layover_minutes

\* C2: get_synthetic_routes emits, for each position of the hub list, every
\* pair of a stored first leg origin->hub and a stored second leg
\* hub->destination on the date whose layover exceeds the minimum, once per
\* pair of table rows, and nothing else; an empty hub list gives the empty
\* list.
C2_SynthesizerComplete ==
    Returned("get_synthetic_routes") =>
        LET out == result.val
            due == {t \in (1..Len(call.hub_airports)) \X (1..Len(store)) \X (1..Len(store)) :
                        <<t[2], t[3]>> \in ValidPairs(call.origin, call.destination,
                                                      call.date, call.hub_airports[t[1]],
                                                      call.min_layover_minutes)}
            Key(h, f1, f2) == <<h, f1, f2>>
            keysOut == {Key(out[k].hub, out[k].flight1, out[k].flight2) : k \in 1..Len(out)}
            keysDue == {Key(call.hub_airports[t[1]], Leg(store[t[2]]), Leg(store[t[3]])) :
                            t \in due}
        IN  /\ Len(out) = Cardinality(due)
            /\ \A key \in keysOut \cup keysDue :
                  Cardinality({k \in 1..Len(out) :
                      Key(out[k].hub, out[k].flight1, out[k].flight2) = key})
                  = Cardinality({t \in due :
                      Key(call.hub_airports[t[1]], Leg(store[t[2]]), Leg(store[t[3]])) = key})
            /\ call.hub_airports = <<>> => out = <<>>

\* A call with two different hubs in the list, the second of them with a
\* valid pair.
C2_Witness ==
    /\ Returned("get_synthetic_routes")
    /\ Len(call.hub_airports) = 2
    /\ call.hub_airports[1] # call.hub_airports[2]
    /\ ValidPairs(call.origin, call.destination, call.date,
                  call.hub_airports[2], call.min_layover_minutes) # {}

\* The airports with a flight from o on dt and a flight into d on dt.
TwoSided(o, d, dt) ==
    {h \in Airports :
        /\ \E i \in 1..Len(store) : Flies(i, o, h, dt)
        /\ \E j \in 1..Len(store) : Flies(j, h, d, dt)}

\* C3: get_possible_hub_airports, and the hub list recommend_routes computes
\* for a day, hold exactly the airports with at least one flight from the
\* origin on the date and at least one flight into the destination on the
\* date, each once.
C3_HubDiscovery ==
    /\ Returned("get_possible_hub_airports") =>
          /\ Range(result.val) = TwoSided(call.origin, call.destination, call.date)
          /\ Len(result.val) = Cardinality(Range(result.val))
    /\ (pc = "loop" /\ iters > 0 /\ call.include_synthetic) =>
          /\ Range(hubs) = TwoSided(call.origin, call.destination, day - 1)
          /\ Len(hubs) = Cardinality(Range(hubs))

\* A discovery that returned a hub while another airport had one side only.
C3_Witness ==
    /\ Returned("get_possible_hub_airports")
    /\ result.val # <<>>
    /\ \E h \in Airports \ Range(result.val) :
          \E i \in 1..Len(store) : Flies(i, call.origin, h, call.date)

\* The table rows that are direct flights from o to d on dt.
DirectIdx(o, d, dt) == {i \in 1..Len(store) : Flies(i, o, d, dt)}

\* The (hub position, first row, second row) triples that are valid
\* itineraries via the hubs of the list hl.
SynthDue(o, d, dt, hl, mlm) ==
    {t \in (1..Len(hl)) \X (1..Len(store)) \X (1..Len(store)) :
        <<t[2], t[3]>> \in ValidPairs(o, d, dt, hl[t[1]], mlm)}

\* The score of a candidate with mileage above zero.
ScoreOf(price, taxes, miles) == calculate_value_per_mile(price, taxes, miles).v

\* The scores of the candidates of a recommend_best_route call in call.
BestRouteScores ==
    {ScoreOf(store[i].price,
             estimate_taxes_and_fees(call.origin, call.destination),
             store[i].miles) :
        i \in DirectIdx(call.origin, call.destination, call.date)}
    \cup
    {ScoreOf(store[t[2]].price + store[t[3]].price,
             estimate_taxes_and_fees(call.origin, call.hub_airports[t[1]])
                 + estimate_taxes_and_fees(call.hub_airports[t[1]], call.destination),
             store[t[2]].miles + store[t[3]].miles) :
        t \in SynthDue(call.origin, call.destination, call.date,
                       call.hub_airports, call.min_layover_minutes)}

\* Some candidate of the recommend_best_route call in call has mileage zero.
BestRouteZeroMiles ==
    \/ \E i \in DirectIdx(call.origin, call.destination, call.date) :
          store[i].miles = 0
    \/ \E t \in SynthDue(call.origin, call.destination, call.date,
                         call.hub_airports, call.min_layover_minutes) :
          store[t[2]].miles + store[t[3]].miles = 0

BestRouteNoCandidate ==
    /\ DirectIdx(call.origin, call.destination, call.date) = {}
    /\ SynthDue(call.origin, call.destination, call.date,
                call.hub_airports, call.min_layover_minutes) = {}

\* The returned option is a candidate of the call and no candidate scores
\* higher.
BestRouteIsMaximal ==
    LET b == result.val[1]
    IN  /\ \/ /\ b.type = "Direct"
              /\ \E i \in DirectIdx(call.origin, call.destination, call.date) :
                    b.flights = <<Leg(store[i])>>
           \/ /\ b.type = "Synthetic"
              /\ \E t \in SynthDue(call.origin, call.destination, call.date,
                                   call.hub_airports, call.min_layover_minutes) :
                    /\ b.flights = <<Leg(store[t[2]]), Leg(store[t[3]])>>
                    /\ b.route[1][2] = call.hub_airports[t[1]]
        /\ b.value_per_mile \in BestRouteScores
        /\ \A v \in BestRouteScores : b.value_per_mile >= v

\* C4 as stated: the sentinel is returned exactly when there is no direct
\* flight and no valid synthetic route (via a hub of the given list);
\* otherwise a candidate of maximal value_per_mile is returned.
C4_Original ==
    Ended("recommend_best_route") =>
        /\ result.kind = "sentinel" <=> BestRouteNoCandidate
        /\ ~BestRouteNoCandidate => (result.kind = "option" /\ BestRouteIsMaximal)

\* C4, amended: a call with a zero-mileage candidate raises; every other call
\* returns the sentinel exactly when there is no direct flight and no valid
\* synthetic route via a hub of the given list, and otherwise a candidate
\* whose value_per_mile is at least that of every candidate, also when the
\* best score is zero or negative.
C4_BestRoute ==
    Ended("recommend_best_route") =>
        /\ result.kind = "raise" <=> BestRouteZeroMiles
        /\ ~BestRouteZeroMiles =>
              /\ result.kind = "sentinel" <=> BestRouteNoCandidate
              /\ ~BestRouteNoCandidate =>
                    (result.kind = "option" /\ BestRouteIsMaximal)

\* A best pick whose score is not above zero.
C4_Witness ==
    /\ Returned("recommend_best_route")
    /\ result.kind = "option"
    /\ result.val[1].value_per_mile <= 0

\* The first and last day of the range of the recommend_routes call in call.
RangeLo == Min(DateOf(call.start_date), DateOf(call.end_date))

RangeHi == Max(DateOf(call.start_date), DateOf(call.end_date))

\* The candidates of the recommend_routes call in call: a direct candidate is
\* a day of the range and a table row, a synthetic one a day, a hub and two
\* table rows.
RangeDirect ==
    {t \in (RangeLo..RangeHi) \X (1..Len(store)) :
        Flies(t[2], call.origin, call.destination, t[1])}

RangeSynth ==
    IF call.include_synthetic
    THEN {t \in (RangeLo..RangeHi) \X Airports \X (1..Len(store)) \X (1..Len(store)) :
             <<t[3], t[4]>> \in ValidPairs(call.origin, call.destination, t[1],
                                           t[2], call.min_layover_minutes)}
    ELSE {}

\* What tells one accumulated row from another.
RowKey(r) == <<r.date, r.type, r.route, r.flights_json>>

DirectKey(t) ==
    <<t[1], "Direct", <<<<call.origin, call.destination>>>>, <<Leg(store[t[2]])>>>>

SynthKey(t) ==
    <<t[1], "Synthetic", <<<<call.origin, t[2]>>, <<t[2], call.destination>>>>,
      <<Leg(store[t[3]]), Leg(store[t[4]])>>>>

\* C5: when the day loop of recommend_routes is left, the accumulated rows
\* are, as a multiset, the candidates of every day from min(start, end) to
\* max(start, end), each day's candidates coming from that day's flights
\* only and nothing being merged across days; the days were visited in
\* ascending order, max - min + 1 of them, whichever of the two dates was
\* given first.
C5_RangeUnion ==
    pc = "filter" =>
        /\ iters = RangeHi - RangeLo + 1
        /\ Len(rows) = Cardinality(RangeDirect) + Cardinality(RangeSynth)
        /\ \A key \in {RowKey(rows[k]) : k \in 1..Len(rows)}
                      \cup {DirectKey(t) : t \in RangeDirect}
                      \cup {SynthKey(t) : t \in RangeSynth} :
              Cardinality({k \in 1..Len(rows) : RowKey(rows[k]) = key})
              = Cardinality({t \in RangeDirect : DirectKey(t) = key})
                + Cardinality({t \in RangeSynth : SynthKey(t) = key})
        /\ \A k \in 1..(Len(rows) - 1) : rows[k].date <= rows[k + 1].date
        /\ df = rows

\* A range given end first that gathered rows on two different days.
C5_Witness ==
    /\ pc = "filter"
    /\ DateOf(call.end_date) < DateOf(call.start_date)
    /\ rows # <<>>
    /\ rows[1].date # rows[Len(rows)].date

\* needle occurs in label, letter case ignored.
SubstrCI(needle, label) ==
    \E off \in 0..(Len(label) - Len(needle)) :
        \A k \in 1..Len(needle) : Lower(needle[k]) = Lower(label[off + k])

\* The entry, trimmed, is not blank and occurs in the label.
EntryMatches(label, entry) ==
    strip(entry) # <<>> /\ SubstrCI(strip(entry), label)

PassesThresholds(r) ==
    /\ \A t \in call.min_vpm_cents : r.value_per_mile_cents >= t
    /\ \A t \in call.max_price : r.price <= t

\* C6 as stated: a row survives the filters exactly when it passes the two
\* thresholds that are given and, the allowlist being non-empty, its airline
\* label matches some entry of the allowlist.
C6_Original ==
    pc = "sort" =>
        df = SelectSeq(prev, LAMBDA r :
                /\ PassesThresholds(r)
                /\ \/ call.airline_allowlist = <<>>
                   \/ \E k \in 1..Len(call.airline_allowlist) :
                         EntryMatches(r.airline, call.airline_allowlist[k]))

\* C6, amended: a row survives the filters exactly when its score is at
\* least min_vpm_cents (if given), its price at most max_price (if given),
\* and, the allowlist holding at least one non-blank entry, its airline label
\* contains some non-blank entry (trimmed, letter case ignored); an absent
\* threshold, an empty allowlist and an allowlist of blank entries only
\* remove no row.
C6_FiltersConjoin ==
    pc = "sort" =>
        df = SelectSeq(prev, LAMBDA r :
                /\ PassesThresholds(r)
                /\ \/ \A k \in 1..Len(call.airline_allowlist) :
                         strip(call.airline_allowlist[k]) = <<>>
                   \/ \E k \in 1..Len(call.airline_allowlist) :
                         EntryMatches(r.airline, call.airline_allowlist[k]))

\* All three filters given, a row removed, and a row kept whose price is
\* exactly max_price.
C6_Witness ==
    /\ pc = "sort"
    /\ call.min_vpm_cents # {}
    /\ call.max_price # {}
    /\ Pats(call.airline_allowlist) # <<>>
    /\ Len(df) < Len(prev)
    /\ \E k \in 1..Len(df) : df[k].price \in call.max_price

\* Row a may stand directly before row b under the objective.
InOrder(a, b, objective) ==
    IF objective = "min_fees"
    THEN \/ a.taxes < b.taxes
         \/ a.taxes = b.taxes /\ a.price < b.price
         \/ /\ a.taxes = b.taxes
            /\ a.price = b.price
            /\ a.value_per_mile_cents >= b.value_per_mile_cents
    ELSE \/ a.value_per_mile_cents > b.value_per_mile_cents
         \/ /\ a.value_per_mile_cents = b.value_per_mile_cents
            /\ a.price <= b.price

\* recommend_routes has returned its table through the sort and truncation.
ReturnedSorted ==
    /\ Returned("recommend_routes")
    /\ "max_results" \in DOMAIN call

\* C7: in the table recommend_routes returns (and in the sorted frame before
\* truncation) adjacent rows are in order: under "min_fees" by taxes
\* ascending, price ascending, value per mile descending; under any other
\* objective by value per mile descending, price ascending.
C7_SortedOutput ==
    /\ pc = "head" =>
          \A k \in 1..(Len(df) - 1) : InOrder(df[k], df[k + 1], call.objective)
    /\ ReturnedSorted =>
          \A k \in 1..(Len(result.val) - 1) :
              InOrder(result.val[k], result.val[k + 1], call.objective)

\* A returned table under "min_fees" whose first two rows tie on taxes and
\* stand in the opposite of their value-per-mile order.
C7_Witness ==
    /\ ReturnedSorted
    /\ call.objective = "min_fees"
    /\ Len(result.val) >= 2
    /\ result.val[1].taxes = result.val[2].taxes
    /\ result.val[1].price < result.val[2].price
    /\ result.val[1].value_per_mile_cents < result.val[2].value_per_mile_cents

\* C8 as stated: for every max_results >= 0, 0 included, the returned table
\* has at most max_results rows and they are the first rows of the filtered,
\* sorted frame.
C8_Original ==
    ReturnedSorted =>
        /\ Len(result.val) <= call.max_results
        /\ result.val = SubSeq(prev, 1, Len(result.val))

\* C9: calculate_value_per_mile raises whenever miles is zero, and the
\* callers let it through: recommend_best_route raises when a candidate has
\* mileage zero, and the day loop of recommend_routes is never left normally
\* when a candidate gathered on some day of the range has mileage zero; a
\* call that raised returned no table.
C9_ZeroMilesAborts ==
    /\ Ended("calculate_value_per_mile") =>
          (call.miles_used = 0 <=> result.kind = "raise")
    /\ Ended("recommend_best_route") =>
          (BestRouteZeroMiles => (pc = "raised" /\ result.kind = "raise"))
    /\ pc = "filter" =>
          /\ \A t \in RangeDirect : store[t[2]].miles # 0
          /\ \A t \in RangeSynth : store[t[3]].miles + store[t[4]].miles # 0
    /\ (pc = "raised" /\ call.op = "recommend_routes") =>
          /\ result.kind = "raise"
          /\ df = <<>>
          /\ \/ \E i \in DirectIdx(call.origin, call.destination, day) :
                   store[i].miles = 0
             \/ /\ call.include_synthetic
                /\ \E h \in Airports :
                      \E ij \in ValidPairs(call.origin, call.destination, day, h,
                                           call.min_layover_minutes) :
                          store[ij[1]].miles + store[ij[2]].miles = 0

\* A range query that gathered a day's rows and then raised on a later day.
C9_Witness ==
    /\ pc = "raised"
    /\ call.op = "recommend_routes"
    /\ iters >= 1
    /\ rows # <<>>

\* C10: estimate_taxes_and_fees returns 50.00 for (JFK, LHR), (DXB, LHR) and
\* (LAX, HND) and 11.20 for every other ordered pair, the reverse of a listed
\* pair and origin = destination included, and never raises.
C10_FeeTable ==
    Ended("estimate_taxes_and_fees") =>
        /\ pc = "returned"
        /\ result.kind = "value"
        /\ result.val =
              <<IF \/ (call.origin = "JFK" /\ call.destination = "LHR")
                   \/ (call.origin = "DXB" /\ call.destination = "LHR")
                   \/ (call.origin = "LAX" /\ call.destination = "HND")
                THEN 5000 ELSE 1120>>

\* The reverse of a listed pair was priced at the default.
C10_Witness ==
    /\ Returned("estimate_taxes_and_fees")
    /\ call.origin = "LHR"
    /\ call.destination = "JFK"
    /\ result.val = <<1120>>

\* The fee policy, in cents.
FeeOf(o, d) ==
    IF \/ (o = "JFK" /\ d = "LHR")
       \/ (o = "DXB" /\ d = "LHR")
       \/ (o = "LAX" /\ d = "HND")
    THEN 5000 ELSE 1120

\* A synthetic candidate from o to d via h with legs f1, f2: its price and
\* miles are the legs' sums and its taxes the two segment fees.
SyntheticTotals(o, d, h, f1, f2, price, miles, taxes) ==
    /\ price = f1.price + f2.price
    /\ miles = f1.miles + f2.miles
    /\ taxes = FeeOf(o, h) + FeeOf(h, d)
    /\ taxes # FeeOf(o, d)

\* C11: every synthetic candidate via hub h, in get_synthetic_routes, in
\* recommend_best_route and in the rows of recommend_routes, has price and
\* miles equal to the sums over its two legs and taxes equal to
\* fee(origin, h) + fee(h, destination), which is never fee(origin,
\* destination); every direct candidate has taxes fee(origin, destination).
C11_CandidateTotals ==
    /\ Returned("get_synthetic_routes") =>
          \A k \in 1..Len(result.val) :
              LET s == result.val[k]
              IN  SyntheticTotals(call.origin, call.destination, s.hub,
                                  s.flight1, s.flight2,
                                  s.total_price, s.total_miles, s.taxes)
    /\ (Returned("recommend_best_route") /\ result.kind = "option") =>
          LET b == result.val[1]
          IN  IF b.type = "Synthetic"
              THEN SyntheticTotals(call.origin, call.destination, b.route[1][2],
                                   b.flights[1], b.flights[2],
                                   b.price, b.miles, b.taxes)
              ELSE /\ b.taxes = FeeOf(call.origin, call.destination)
                   /\ b.price = b.flights[1].price
                   /\ b.miles = b.flights[1].miles
    /\ pc \in {"loop", "filter"} =>
          \A k \in 1..Len(rows) :
              LET r == rows[k]
              IN  IF r.type = "Synthetic"
                  THEN SyntheticTotals(call.origin, call.destination, r.route[1][2],
                                       r.flights_json[1], r.flights_json[2],
                                       r.price, r.miles, r.taxes)
                  ELSE /\ r.taxes = FeeOf(call.origin, call.destination)
                       /\ r.price = r.flights_json[1].price
                       /\ r.miles = r.flights_json[1].miles

\* A range query that accumulated a synthetic row whose second segment is a
\* listed pair while its first is not.
C11_Witness ==
    /\ pc = "filter"
    /\ \E k \in 1..Len(rows) :
          /\ rows[k].type = "Synthetic"
          /\ rows[k].taxes = 6120
          /\ FeeOf(call.origin, call.destination) = 5000

\* The eleven column names of the fixed schema.
Schema ==
    {"date", "type", "origin", "destination", "airline", "price", "miles",
     "taxes", "value_per_mile_cents", "route", "flights_json"}

\* C12: every table returned by recommend_routes has exactly the eleven
\* schema columns and every row carries exactly those fields, also when
\* nothing was gathered over the range and when the filters removed every
\* gathered row.
C12_FixedSchema ==
    Returned("recommend_routes") =>
        /\ result.kind = "table"
        /\ Len(result.columns) = 11
        /\ Range(result.columns) = Schema
        /\ \A k \in 1..Len(result.val) : DOMAIN result.val[k] = Schema

\* Both empty tables occur: rows were gathered and the filters removed them
\* all; nothing was gathered.
FilteredToNothing ==
    /\ Returned("recommend_routes")
    /\ "max_results" \in DOMAIN call
    /\ result.val = <<>>
    /\ call.max_results # 0

C12_Witness == FilteredToNothing

C12_WitnessNothingGathered ==
    /\ Returned("recommend_routes")
    /\ "end" \in DOMAIN call
    /\ rows = <<>>
    /\ result.val = <<>>

\* The rows that the days lo..hi append when include_synthetic is false.
RECURSIVE DirectOnlyRun(_, _, _, _, _)
DirectOnlyRun(o, d, lo, hi, mlm) ==
    IF hi < lo THEN <<>>
    ELSE DirectOnlyRun(o, d, lo, hi - 1, mlm)
         \o Scored(DayRows(o, d, hi, FALSE, <<>>, mlm))

IsDirect(r) == r.type = "Direct"

NoSyntheticIn(frame) == \A k \in 1..Len(frame) : frame[k].type # "Synthetic"

\* C13: with include_synthetic false, recommend_routes performs no hub
\* discovery, accumulates no row of type "Synthetic" and returns none; the
\* accumulated "Direct" rows are those of the run with the flag off,
\* whatever the flag is.
C13_SyntheticOptIn ==
    /\ (pc \in {"loop", "filter"} /\ call.op = "recommend_routes") =>
          /\ ~call.include_synthetic => (NoSyntheticIn(rows) /\ hubs = <<>>)
          /\ SelectSeq(rows, IsDirect)
                = DirectOnlyRun(call.origin, call.destination, RangeLo, day - 1,
                                call.min_layover_minutes)
    /\ (pc \in {"filter", "sort", "head"} /\ call.op = "recommend_routes"
          /\ ~call.include_synthetic) => NoSyntheticIn(df)
    /\ (Returned("recommend_routes") /\ ~call.include_synthetic) =>
          NoSyntheticIn(result.val)

\* A call with the flag off returned a direct row for a pair and day that
\* also have a valid two-leg itinerary in the store.
C13_Witness ==
    /\ Returned("recommend_routes")
    /\ ~call.include_synthetic
    /\ \E k \in 1..Len(result.val) :
          LET r == result.val[k]
          IN  \E h \in Airports : ValidPairs(r.origin, r.destination, r.date, h, 45) # {}

\* With the flag on the same pair and day do yield a synthetic row.
C13_WitnessOn ==
    /\ Returned("recommend_routes")
    /\ call.include_synthetic
    /\ \E k \in 1..Len(result.val) : result.val[k].type = "Synthetic"
    /\ \E k \in 1..Len(result.val) : result.val[k].type = "Direct"

\* The two hundredths next to the exact quotient n / m, m > 0, and whether
\* n / m lies exactly half way between them.
FloorOf(n, m) == n \div m

IsHalf(n, m) == 2 * (n % m) = m

\* The decimal rounding rules for an exact half.
TieRules == {"even", "odd", "up", "down", "away", "toward"}

\* n / m rounded to the nearest integer, an exact half as the rule says.
RoundWith(rule, n, m) ==
    LET q == FloorOf(n, m)
        r == n % m
    IN  IF 2 * r < m THEN q
        ELSE IF 2 * r > m THEN q + 1
        ELSE CASE rule = "even"   -> IF q % 2 = 0 THEN q ELSE q + 1
               [] rule = "odd"    -> IF q % 2 = 0 THEN q + 1 ELSE q
               [] rule = "up"     -> q + 1
               [] rule = "down"   -> q
               [] rule = "away"   -> IF n >= 0 THEN q + 1 ELSE q
               [] rule = "toward" -> IF n >= 0 THEN q ELSE q + 1

\* The exact value, in hundredths of a cent times miles, of a scoring call.
ExactNumerator == 100 * (call.cash_price - call.taxes_and_fees)

ScoringDone == Ended("calculate_value_per_mile") /\ call.miles_used > 0

\* C14 as stated: the score is the exact quotient rounded to two decimals,
\* and one rule decides every exact half-cent.
C14_Original ==
    ScoringDone =>
        \E rule \in TieRules :
            \A p \in Prices, t \in TaxesUsed, m \in MilesUsed \ {0} :
                calculate_value_per_mile(p, t, m).v
                    = RoundWith(rule, 100 * (p - t), m)

\* C14, amended: for miles > 0 the call returns a hundredth nearest to the
\* exact ((price - taxes) / miles) * 100, the one nearest hundredth unless
\* the exact value is a half-cent and then one of its two neighbours; it
\* leaves the store and every other piece of state as it was.
C14_NearestHundredth ==
    ScoringDone =>
        /\ pc = "returned"
        /\ result.kind = "value"
        /\ LET v == result.val[1]
               q == FloorOf(ExactNumerator, call.miles_used)
           IN  /\ v \in {q, q + 1}
               /\ ~IsHalf(ExactNumerator, call.miles_used) =>
                     v = RoundWith("even", ExactNumerator, call.miles_used)
        /\ rows = <<>> /\ df = <<>> /\ prev = <<>> /\ hubs = <<>> /\ day = 0

\* Exact half-cents that went three ways: up from an even hundredth
\* (3.345 -> 3.35), down to an odd one (1.595 -> 1.59), down to an even one
\* (3.485 -> 3.48).
C14_Witness ==
    /\ ScoringDone
    /\ IsHalf(ExactNumerator, call.miles_used)
    /\ FloorOf(ExactNumerator, call.miles_used) % 2 = 0
    /\ result.val[1] = FloorOf(ExactNumerator, call.miles_used) + 1

C14_WitnessDownOdd ==
    /\ ScoringDone
    /\ IsHalf(ExactNumerator, call.miles_used)
    /\ FloorOf(ExactNumerator, call.miles_used) % 2 = 1
    /\ result.val[1] = FloorOf(ExactNumerator, call.miles_used)

C14_WitnessDownEven ==
    /\ ScoringDone
    /\ IsHalf(ExactNumerator, call.miles_used)
    /\ FloorOf(ExactNumerator, call.miles_used) % 2 = 0
    /\ result.val[1] = FloorOf(ExactNumerator, call.miles_used)

\* The allowlist entries that are not blank, trimmed.
Needles(allowlist) ==
    {strip(allowlist[k]) : k \in {i \in 1..Len(allowlist) : strip(allowlist[i]) # <<>>}}

\* Some needle occurs in the label character for character, letter case
\* ignored; without needles every label is kept.
AllowlistKeeps(label, allowlist) ==
    \/ Needles(allowlist) = {}
    \/ \E n \in Needles(allowlist) :
          \E off \in 0..(Len(label) - Len(n)) :
              \A k \in 1..Len(n) : Lower(n[k]) = Lower(label[off + k])

\* The airline label of a row: the leg's code, or CODE1+CODE2.
LabelOf(r) ==
    IF r.type = "Synthetic"
    THEN r.flights_json[1].airline \o <<"+">> \o r.flights_json[2].airline
    ELSE r.flights_json[1].airline

\* C15: of the rows that pass the thresholds, the allowlist filter keeps
\* exactly those whose airline label (CODE1+CODE2 for a synthetic row)
\* contains some non-blank entry, trimmed, as a literal substring with letter
\* case ignored: "+", ".", "|" and "*" in an entry stand for themselves, and
\* an allowlist of blank entries only keeps every row.
C15_AllowlistLiteral ==
    pc = "sort" =>
        /\ \A k \in 1..Len(prev) : prev[k].airline = LabelOf(prev[k])
        /\ Range(df) = {r \in Range(prev) :
                           /\ PassesThresholds(r)
                           /\ AllowlistKeeps(LabelOf(r), call.airline_allowlist)}
        /\ \A r \in Range(df) : Count(df, r) = Count(prev, r)

\* The entry "a+" kept a synthetic row and removed a direct row whose code
\* holds the letter a.
C15_Witness ==
    /\ pc = "sort"
    /\ call.airline_allowlist = << <<"a", "+">> >>
    /\ \E k \in 1..Len(df) : df[k].type = "Synthetic"
    /\ \E k \in 1..Len(prev) :
          /\ prev[k].type = "Direct"
          /\ PassesThresholds(prev[k])
          /\ \E i \in 1..Len(prev[k].airline) : Lower(prev[k].airline[i]) = "a"
          /\ \A j \in 1..Len(df) : df[j] # prev[k]

\* The entries ".", and "Q|B" with "U*", removed every row.
C15_WitnessDot ==
    /\ pc = "sort"
    /\ call.airline_allowlist = << <<".">> >>
    /\ prev # <<>> /\ df = <<>>

C15_WitnessBar ==
    /\ pc = "sort"
    /\ call.airline_allowlist = << <<"Q", "|", "B">>, <<"U", "*">> >>
    /\ df = <<>>
    /\ \E k \in 1..Len(prev) : prev[k].airline = <<"B", "A">>
    /\ \E k \in 1..Len(prev) : prev[k].airline[1] = "U"


\* The frames the day loop can accumulate from day d to day hi: one per choice
\* of the order of the hub list on each day.
RECURSIVE Accumulations(_, _, _, _, _, _)
Accumulations(o, d, dt, hi, include, mlm) ==
    IF dt > hi THEN {<<>>}
    ELSE {Scored(DayRows(o, d, dt, include, hs, mlm)) \o rest :
            hs \in (IF include THEN local_get_possible_hub_airports(o, d, dt)
                    ELSE {<<>>}),
            rest \in Accumulations(o, d, dt + 1, hi, include, mlm)}

\* What recommend_routes returns once the loop has left frame behind.
TableFrom(frame, min_vpm_cents, max_price, airline_allowlist, objective, max_results) ==
    IF frame = <<>> THEN frame
    ELSE Truncate(sort_values(ApplyFilters(frame, min_vpm_cents, max_price,
                                           airline_allowlist),
                              objective),
                  max_results)

LoopLeft == pc = "filter" /\ call.op = "recommend_routes"

\* C16 as stated: when the day loop of recommend_routes has been left, the
\* table it goes on to return (rows, their order, and which rows survive the
\* truncation) is, for every choice of filters, objective and max_results,
\* the same as the one returned had the hub list of each day come in any
\* other order, also when rows tie on every sort key.
C16_Original ==
    LoopLeft =>
        \A alt \in Accumulations(call.origin, call.destination,
                                 DateRange(call.start_date, call.end_date).start,
                                 call.end, call.include_synthetic,
                                 call.min_layover_minutes),
           min_vpm_cents \in MinVpms, max_price \in MaxPrices,
           airline_allowlist \in Allowlists, objective \in Objectives,
           max_results \in ResultCaps :
            TableFrom(alt, min_vpm_cents, max_price, airline_allowlist,
                      objective, max_results)
            = TableFrom(df, min_vpm_cents, max_price, airline_allowlist,
                        objective, max_results)

\* Every airport a flight of the store leaves from or arrives at.
StoreAirports ==
    {store[i].route_origin : i \in 1..Len(store)}
    \cup {store[i].route_destination : i \in 1..Len(store)}

\* The two lists hold the same routes, each as many times.
SameRoutes(a, b) ==
    /\ Len(a) = Len(b)
    /\ \A x \in Range(a) \cup Range(b) : Count(a, x) = Count(b, x)

\* C17: for the hub list get_possible_hub_airports returned and every minimum
\* layover, get_synthetic_routes builds from that list the same routes as it
\* builds from a list of all the airports of the store, in whatever order:
\* no itinerary is lost, also when the origin or the destination is a hub.
C17_NoItineraryLost ==
    Returned("get_possible_hub_airports") =>
        \A mlm \in Layovers, every \in Perms(StoreAirports) :
            SameRoutes(get_synthetic_routes(call.origin, call.destination,
                                            call.date, result.val, mlm),
                       get_synthetic_routes(call.origin, call.destination,
                                            call.date, every, mlm))

\* A discovery that returned the origin as a hub, a route through the origin
\* being built from it, while some airport of the store is no hub.
C17_Witness ==
    /\ Returned("get_possible_hub_airports")
    /\ call.origin \in Range(result.val)
    /\ StoreAirports \ Range(result.val) # {}
    /\ \E mlm \in Layovers :
          LET rs == get_synthetic_routes(call.origin, call.destination,
                                         call.date, result.val, mlm)
          IN  \E k \in 1..Len(rs) : rs[k].hub = call.origin

\* The same with the destination as a hub.
C17_WitnessDestination ==
    /\ Returned("get_possible_hub_airports")
    /\ call.destination \in Range(result.val)
    /\ \E mlm \in Layovers :
          LET rs == get_synthetic_routes(call.origin, call.destination,
                                         call.date, result.val, mlm)
          IN  \E k \in 1..Len(rs) : rs[k].hub = call.destination

\* A returned hub that yields no route at some layover: both legs exist but
\* no pair of them leaves the layover.
C17_WitnessNoPair ==
    /\ Returned("get_possible_hub_airports")
    /\ \E h \in Range(result.val), mlm \in Layovers :
          LET rs == get_synthetic_routes(call.origin, call.destination,
                                         call.date, result.val, mlm)
          IN  \A k \in 1..Len(rs) : rs[k].hub # h

====
